---- MODULE Spec2Model ----
(***************************************************************************)
(* A model of directory_structure.py: the capture of a directory tree into  *)
(* a nested mapping, its JSON and markdown renderings, and the replay of a  *)
(* JSON document onto a directory (update_files_from_json), driven by main. *)
(*                                                                         *)
(* Every string of the program (a path, a name, a pattern, a file's text,   *)
(* a JSON text) is a sequence of one-character tokens.  The tokens LF, CR   *)
(* and BAD stand for the line feed, the carriage return and a byte that is  *)
(* no valid UTF-8.  A file on disk holds bytes; reading decodes them.       *)
(***************************************************************************)
EXTENDS Integers, Sequences, FiniteSets, TLC

LF == "LF"
CR == "CR"
BAD == "BAD"
SLASH == "/"

(***************************************************************************)
(* String helpers (Python str methods the program uses).                    *)
(***************************************************************************)
Front(s) == SubSeq(s, 1, Len(s) - 1)

Last(s) == s[Len(s)]

Range(s) == {s[i] : i \in 1..Len(s)}

\* str.rfind('/') + 1: the length of the prefix ending with the last slash.
RFindSlash(p) ==
  LET idx == {i \in 1..Len(p) : p[i] = SLASH}
  IN  IF idx = {} THEN 0 ELSE CHOOSE i \in idx : \A j \in idx : j <= i

\* str.rstrip('/')
RECURSIVE RStripSlash(_)
RStripSlash(p) ==
  IF p # <<>> /\ Last(p) = SLASH THEN RStripSlash(Front(p)) ELSE p

AllSlashes(p) == \A i \in 1..Len(p) : p[i] = SLASH

\* posixpath.split(p): (head, tail)
PathSplit(p) ==
  LET i == RFindSlash(p)
      head == SubSeq(p, 1, i)
      tail == SubSeq(p, i + 1, Len(p))
  IN  [head |-> IF head # <<>> /\ ~AllSlashes(head) THEN RStripSlash(head) ELSE head,
       tail |-> tail]

\* os.path.dirname(p)
dirname(p) == PathSplit(p).head

\* os.path.join(a, b) (posixpath)
join(a, b) ==
  IF b # <<>> /\ b[1] = SLASH THEN b
  ELSE IF a = <<>> \/ Last(a) = SLASH THEN a \o b
  ELSE a \o <<SLASH>> \o b

\* The components of a path string, split at every slash ("/r/f" gives
\* <<"", "r", "f">>), as the kernel's path walk sees them.
RECURSIVE Components(_)
Components(p) ==
  LET idx == {i \in 1..Len(p) : p[i] = SLASH}
  IN  IF idx = {} THEN <<p>>
      ELSE LET i == CHOOSE k \in idx : \A j \in idx : k <= j
           IN  <<SubSeq(p, 1, i - 1)>> \o Components(SubSeq(p, i + 1, Len(p)))

\* Path(item_path).suffix: the last dot of the final component and what
\* follows it, if that dot is neither the first nor the last character of the name.
suffix(p) ==
  LET name == PathSplit(p).tail
      dots == {i \in 1..Len(name) : name[i] = "."}
      i == IF dots = {} THEN 0 ELSE CHOOSE k \in dots : \A j \in dots : j <= k
  IN  IF i > 1 /\ i < Len(name) THEN SubSeq(name, i, Len(name)) ELSE <<>>

\* The text a file opened with newline=None yields: CR LF and a lone CR
\* both become LF (universal newlines).
RECURSIVE Universal(_)
Universal(s) ==
  IF s = <<>> THEN <<>>
  ELSE IF s[1] = CR
       THEN IF Len(s) >= 2 /\ s[2] = LF
            THEN <<LF>> \o Universal(SubSeq(s, 3, Len(s)))
            ELSE <<LF>> \o Universal(Tail(s))
       ELSE <<s[1]>> \o Universal(Tail(s))

\* str.splitlines() on the characters of the model: LF, CR and CR LF end a line.
RECURSIVE splitlinesFrom(_, _)
splitlinesFrom(s, cur) ==
  IF s = <<>> THEN (IF cur = <<>> THEN <<>> ELSE <<cur>>)
  ELSE IF s[1] = CR /\ Len(s) >= 2 /\ s[2] = LF
       THEN <<cur>> \o splitlinesFrom(SubSeq(s, 3, Len(s)), <<>>)
       ELSE IF s[1] \in {LF, CR}
            THEN <<cur>> \o splitlinesFrom(Tail(s), <<>>)
            ELSE splitlinesFrom(Tail(s), Append(cur, s[1]))

splitlines(s) == splitlinesFrom(s, <<>>)

\* fnmatch.fnmatch(name, pat) on POSIX (normcase is the identity): the whole
\* name must match; * is any run of characters, ? any one character.  The
\* model's patterns hold no bracket expression.
RECURSIVE fnmatch(_, _)
fnmatch(name, pat) ==
  IF pat = <<>> THEN name = <<>>
  ELSE IF pat[1] = "*"
       THEN fnmatch(name, Tail(pat)) \/ (name # <<>> /\ fnmatch(Tail(name), pat))
       ELSE IF pat[1] = "?"
            THEN name # <<>> /\ fnmatch(Tail(name), Tail(pat))
            ELSE name # <<>> /\ name[1] = pat[1] /\ fnmatch(Tail(name), Tail(pat))

\* should_exclude testing the first pattern only
should_exclude_first(item, exclusions) ==
  Len(exclusions) > 0 /\ fnmatch(item, exclusions[1])

should_exclude(item, exclusions) ==
  \E i \in 1..Len(exclusions) : fnmatch(item, exclusions[i])

(***************************************************************************)
(* The filesystem: a function from the canonical absolute path of every     *)
(* existing entry (a sequence of names; <<>> is "/") to its node.  A         *)
(* directory node lists its entries in the order os.listdir returns them.   *)
(***************************************************************************)
DirNode(ents) == [kind |-> "dir", ents |-> ents, data |-> <<>>]

FileNode(data) == [kind |-> "file", ents |-> <<>>, data |-> data]

Exists(fs, cp) == cp \in DOMAIN fs

IsDirAt(fs, cp) == cp \in DOMAIN fs /\ fs[cp].kind = "dir"

IsFileAt(fs, cp) == cp \in DOMAIN fs /\ fs[cp].kind = "file"

\* The kernel's walk of the components comps[i..] from the directory cur:
\* "ok" with the canonical path found, "creatable" when only the final
\* component is missing (its parent directory exists), "notdir" when a
\* component is looked up in something that is no directory, else "noent".
RECURSIVE Walk(_, _, _, _)
Walk(fs, comps, i, cur) ==
  IF i > Len(comps) THEN [st |-> "ok", path |-> cur]
  ELSE IF fs[cur].kind # "dir" THEN [st |-> "notdir", path |-> cur]
  ELSE LET c == comps[i]
       IN  IF c = <<>> \/ c = <<".">> THEN Walk(fs, comps, i + 1, cur)
           ELSE IF c = <<".", ".">>
                THEN Walk(fs, comps, i + 1, IF cur = <<>> THEN cur ELSE Front(cur))
                ELSE IF Append(cur, c) \in DOMAIN fs
                     THEN Walk(fs, comps, i + 1, Append(cur, c))
                     ELSE IF i = Len(comps)
                          THEN [st |-> "creatable", path |-> Append(cur, c)]
                          ELSE [st |-> "noent", path |-> cur]

\* Path resolution of an absolute path string (the empty string names nothing).
Resolve(fs, p) ==
  IF p = <<>> THEN [st |-> "noent", path |-> <<>>] ELSE Walk(fs, Components(p), 1, <<>>)

\* os.path.exists(p), os.path.isdir(p)
exists(fs, p) == Resolve(fs, p).st = "ok"

isdir(fs, p) == LET r == Resolve(fs, p) IN r.st = "ok" /\ fs[r.path].kind = "dir"

\* A new entry at the canonical path cp, appended to its parent's listing.
AddEntry(fs, cp, node) ==
  LET par == Front(cp)
  IN  [q \in DOMAIN fs \cup {cp} |->
         IF q = cp THEN node
         ELSE IF q = par THEN DirNode(Append(fs[par].ents, Last(cp)))
         ELSE fs[q]]

\* os.mkdir(p): [fs, err]
mkdir(fs, p) ==
  LET r == Resolve(fs, p)
  IN  IF r.st = "creatable" THEN [fs |-> AddEntry(fs, r.path, DirNode(<<>>)), err |-> ""]
      ELSE IF r.st = "ok" THEN [fs |-> fs, err |-> "FileExistsError"]
      ELSE IF r.st = "notdir" THEN [fs |-> fs, err |-> "NotADirectoryError"]
      ELSE [fs |-> fs, err |-> "FileNotFoundError"]

\* os.makedirs(name) with exist_ok=False: the missing parents first (an
\* inner FileExistsError is swallowed), then mkdir of the name itself.
RECURSIVE makedirs(_, _)
makedirs(fs, name) ==
  LET s1 == PathSplit(name)
      s2 == IF s1.tail = <<>> THEN PathSplit(s1.head) ELSE s1
      head == s2.head
      tail == s2.tail
      inner == IF head # <<>> /\ tail # <<>> /\ ~exists(fs, head)
               THEN makedirs(fs, head)
               ELSE [fs |-> fs, err |-> ""]
      entered == head # <<>> /\ tail # <<>> /\ ~exists(fs, head)
  IN  IF inner.err \notin {"", "FileExistsError"} THEN inner
      ELSE IF entered /\ tail = <<".">> THEN [fs |-> inner.fs, err |-> ""]
      ELSE mkdir(inner.fs, name)

\* open(p, 'w'): creates the file or truncates it; [fs, err, path]
open_w(fs, p) ==
  LET r == Resolve(fs, p)
  IN  IF r.st = "creatable"
      THEN [fs |-> AddEntry(fs, r.path, FileNode(<<>>)), err |-> "", path |-> r.path]
      ELSE IF r.st = "ok"
           THEN IF fs[r.path].kind = "dir"
                THEN [fs |-> fs, err |-> "IsADirectoryError", path |-> r.path]
                ELSE [fs |-> [fs EXCEPT ![r.path] = FileNode(<<>>)], err |-> "", path |-> r.path]
           ELSE IF r.st = "notdir"
                THEN [fs |-> fs, err |-> "NotADirectoryError", path |-> r.path]
                ELSE [fs |-> fs, err |-> "FileNotFoundError", path |-> r.path]

\* f.write(text) on the file open_w opened at the canonical path cp; utf-8
\* encoding of the model's characters is the identity and '\n' is written
\* as it is (os.linesep is '\n').
write(fs, cp, text) == [fs EXCEPT ![cp] = FileNode(text)]

\* open(p, 'r'): [err, data] with the file's bytes
open_r(fs, p) ==
  LET r == Resolve(fs, p)
  IN  IF r.st = "ok"
      THEN IF fs[r.path].kind = "dir"
           THEN [err |-> "IsADirectoryError", data |-> <<>>]
           ELSE [err |-> "", data |-> fs[r.path].data]
      ELSE IF r.st = "notdir" THEN [err |-> "NotADirectoryError", data |-> <<>>]
      ELSE [err |-> "FileNotFoundError", data |-> <<>>]

\* f.read() of a file opened with encoding='utf-8', errors='ignore':
\* invalid bytes are dropped, then newlines are translated.
read_ignore(data) == Universal(SelectSeq(data, LAMBDA b : b # BAD))

\* f.read() of a file opened with encoding='utf-8' (errors strict):
\* an invalid byte raises UnicodeDecodeError.
read_strict(data) ==
  IF BAD \in Range(data) THEN [err |-> "UnicodeDecodeError", text |-> <<>>]
  ELSE [err |-> "", text |-> Universal(data)]

(***************************************************************************)
(* JSON values as Python holds them after json.load: a dict (its items in   *)
(* insertion order), a str, or something else (a number, None, a list).     *)
(***************************************************************************)
Obj(items) == [t |-> "obj", s |-> <<>>, items |-> items]

Str(s) == [t |-> "str", s |-> s, items |-> <<>>]

Num(d) == [t |-> "num", s |-> <<d>>, items |-> <<>>]

Null == [t |-> "null", s |-> <<>>, items |-> <<>>]

EmptyList == [t |-> "list", s |-> <<>>, items |-> <<>>]

Item(k, v) == [k |-> k, v |-> v]

Keys(items) == {items[i].k : i \in 1..Len(items)}

\* dict lookup d[k] on the items of a dict that holds k
Get(items, k) == items[CHOOSE i \in 1..Len(items) : items[i].k = k].v

\* d[k] = v: replaces the value in place, or appends a new item
SetItem(items, k, v) ==
  IF k \in Keys(items)
  THEN [i \in 1..Len(items) |-> IF items[i].k = k THEN Item(k, v) ELSE items[i]]
  ELSE Append(items, Item(k, v))

\* Python's == on two values: dicts compare by key set and values, never by order.
RECURSIVE DeepEqual(_, _)
DeepEqual(x, y) ==
  /\ x.t = y.t
  /\ x.s = y.s
  /\ Keys(x.items) = Keys(y.items)
  /\ \A k \in Keys(x.items) : DeepEqual(Get(x.items, k), Get(y.items, k))

(***************************************************************************)
(* directory_to_dict                                                        *)
(***************************************************************************)
RECURSIVE directory_to_dict(_, _, _)
RECURSIVE dictLoop(_, _, _, _, _, _)
\* the for loop over os.listdir(path), from entry i on, result being the dict so far
dictLoop(fs, path, exclusions, ents, i, result) ==
  IF i > Len(ents) THEN result
  ELSE LET item == ents[i]
           item_path == join(path, item)
       IN  IF should_exclude(item, exclusions)
           THEN dictLoop(fs, path, exclusions, ents, i + 1, result)
           ELSE IF isdir(fs, item_path)
                THEN dictLoop(fs, path, exclusions, ents, i + 1,
                       SetItem(result, item, directory_to_dict(fs, item_path, exclusions)))
                ELSE dictLoop(fs, path, exclusions, ents, i + 1,
                       SetItem(result, item, Str(read_ignore(open_r(fs, item_path).data))))

\* os.listdir(path): [err, ents]
listdir(fs, path) ==
  LET r == Resolve(fs, path)
  IN  IF r.st = "ok"
      THEN IF fs[r.path].kind = "dir" THEN [err |-> "", ents |-> fs[r.path].ents]
           ELSE [err |-> "NotADirectoryError", ents |-> <<>>]
      ELSE IF r.st = "notdir" THEN [err |-> "NotADirectoryError", ents |-> <<>>]
      ELSE [err |-> "FileNotFoundError", ents |-> <<>>]

\* The dict of an existing directory (the top-level call's error is main's).
directory_to_dict(fs, path, exclusions) ==
  Obj(dictLoop(fs, path, exclusions, listdir(fs, path).ents, 1, <<>>))

(***************************************************************************)
(* json.dump(structure, f, ensure_ascii=False, indent=4)                    *)
(***************************************************************************)
QUOTE == "\""
BSL == "\\"
SP == " "

\* the escapes of json.encoder.ESCAPE_DCT that the model's characters meet
RECURSIVE Escape(_)
Escape(s) ==
  IF s = <<>> THEN <<>>
  ELSE (IF s[1] = QUOTE THEN <<BSL, QUOTE>>
        ELSE IF s[1] = BSL THEN <<BSL, BSL>>
        ELSE IF s[1] = LF THEN <<BSL, "n">>
        ELSE IF s[1] = CR THEN <<BSL, "r">>
        ELSE <<s[1]>>) \o Escape(Tail(s))

EncodeStr(s) == <<QUOTE>> \o Escape(s) \o <<QUOTE>>

IndentWidth == 4

RECURSIVE Spaces(_)
Spaces(n) == IF n <= 0 THEN <<>> ELSE <<SP>> \o Spaces(n - 1)

RECURSIVE Encode(_, _)
RECURSIVE EncodeItems(_, _, _)
\* the members of a dict from item i on, each on its own line
EncodeItems(items, i, level) ==
  IF i > Len(items) THEN <<>>
  ELSE <<LF>> \o Spaces(IndentWidth * level) \o EncodeStr(items[i].k) \o <<":", SP>>
       \o Encode(items[i].v, level)
       \o (IF i < Len(items) THEN <<",">> ELSE <<>>)
       \o EncodeItems(items, i + 1, level)

Encode(v, level) ==
  IF v.t = "str" THEN EncodeStr(v.s)
  ELSE IF v.t = "num" THEN v.s
  ELSE IF v.t = "null" THEN <<"n", "u", "l", "l">>
  ELSE IF v.t = "list" THEN <<"[", "]">>
  ELSE IF v.items = <<>> THEN <<"{", "}">>
  ELSE <<"{">> \o EncodeItems(v.items, 1, level + 1)
       \o <<LF>> \o Spaces(IndentWidth * level) \o <<"}">>

json_dump(v) == Encode(v, 0)

(***************************************************************************)
(* json.load: a result is [ok, v, i], i the position after what was read.   *)
(***************************************************************************)
Fail == [ok |-> FALSE, v |-> Null, i |-> 0]

Digits == {"0", "1", "2"}

RECURSIVE SkipWs(_, _)
SkipWs(s, i) == IF i <= Len(s) /\ s[i] \in {SP, LF, CR} THEN SkipWs(s, i + 1) ELSE i

\* the characters of a string literal from position i on (after the opening quote)
RECURSIVE ParseString(_, _, _)
ParseString(s, i, acc) ==
  IF i > Len(s) THEN Fail
  ELSE IF s[i] = QUOTE THEN [ok |-> TRUE, v |-> Str(acc), i |-> i + 1]
  ELSE IF s[i] = BSL
       THEN IF i + 1 > Len(s) THEN Fail
            ELSE IF s[i + 1] \in {QUOTE, BSL, SLASH} THEN ParseString(s, i + 2, Append(acc, s[i + 1]))
            ELSE IF s[i + 1] = "n" THEN ParseString(s, i + 2, Append(acc, LF))
            ELSE IF s[i + 1] = "r" THEN ParseString(s, i + 2, Append(acc, CR))
            ELSE Fail
  ELSE IF s[i] \in {LF, CR} THEN Fail
  ELSE ParseString(s, i + 1, Append(acc, s[i]))

RECURSIVE ParseValue(_, _)
RECURSIVE ParseMembers(_, _, _)
\* the members of an object, i at the opening quote of the next key
ParseMembers(s, i, items) ==
  IF i > Len(s) \/ s[i] # QUOTE THEN Fail
  ELSE LET key == ParseString(s, i + 1, <<>>)
           c == SkipWs(s, key.i)
       IN  IF ~key.ok \/ c > Len(s) \/ s[c] # ":" THEN Fail
           ELSE LET val == ParseValue(s, SkipWs(s, c + 1))
                    e == SkipWs(s, val.i)
                    got == SetItem(items, key.v.s, val.v)
                IN  IF ~val.ok \/ e > Len(s) THEN Fail
                    ELSE IF s[e] = "}" THEN [ok |-> TRUE, v |-> Obj(got), i |-> e + 1]
                    ELSE IF s[e] = "," THEN ParseMembers(s, SkipWs(s, e + 1), got)
                    ELSE Fail

ParseValue(s, i) ==
  IF i > Len(s) THEN Fail
  ELSE IF s[i] = QUOTE THEN ParseString(s, i + 1, <<>>)
  ELSE IF s[i] = "{"
       THEN LET j == SkipWs(s, i + 1)
            IN  IF j <= Len(s) /\ s[j] = "}" THEN [ok |-> TRUE, v |-> Obj(<<>>), i |-> j + 1]
                ELSE ParseMembers(s, j, <<>>)
  ELSE IF s[i] = "["
       THEN LET j == SkipWs(s, i + 1)
            IN  IF j <= Len(s) /\ s[j] = "]" THEN [ok |-> TRUE, v |-> EmptyList, i |-> j + 1]
                ELSE Fail
  ELSE IF s[i] \in Digits THEN [ok |-> TRUE, v |-> Num(s[i]), i |-> i + 1]
  ELSE IF i + 3 <= Len(s) /\ SubSeq(s, i, i + 3) = <<"n", "u", "l", "l">> THEN [ok |-> TRUE, v |-> Null, i |-> i + 4]
  ELSE Fail

\* JSONDecoder.decode: one value, whitespace around it, nothing after it
json_load(text) ==
  LET r == ParseValue(text, SkipWs(text, 1))
  IN  IF r.ok /\ SkipWs(text, r.i) > Len(text) THEN [ok |-> TRUE, v |-> r.v]
      ELSE [ok |-> FALSE, v |-> Null]

(***************************************************************************)
(* load_exclusions                                                          *)
(***************************************************************************)
\* [err, list]: a missing file gives no pattern; else the lines of the file
load_exclusions(fs, file_path) ==
  IF ~exists(fs, file_path) THEN [err |-> "", list |-> <<>>]
  ELSE LET r == open_r(fs, file_path)
           d == read_strict(r.data)
       IN  IF r.err # "" THEN [err |-> r.err, list |-> <<>>]
           ELSE IF d.err # "" THEN [err |-> d.err, list |-> <<>>]
           ELSE [err |-> "", list |-> splitlines(d.text)]

(***************************************************************************)
(* directory_to_markdown                                                    *)
(***************************************************************************)
\* BT stands for the backtick character
BT == "BT"

FENCE == <<BT, BT, BT>>

HEADING == <<"#", "#", "#", SP>>

PYTHON == <<"p", "y", "t", "h", "o", "n">>

DOT_PY == <<".", "p", "y">>

\* the f-string of one file: heading line, fenced block, closing fence line
Section(item_path, file_content) ==
  HEADING \o item_path \o <<LF>>
  \o FENCE \o (IF suffix(item_path) = DOT_PY THEN PYTHON ELSE <<>>) \o <<LF>>
  \o file_content \o <<LF>> \o FENCE \o <<LF>>

\* the str.join of parts with a line feed between them
RECURSIVE JoinLF(_)
JoinLF(parts) ==
  IF parts = <<>> THEN <<>>
  ELSE IF Len(parts) = 1 THEN parts[1]
  ELSE parts[1] \o <<LF>> \o JoinLF(Tail(parts))

RECURSIVE directory_to_markdown(_, _, _)
RECURSIVE markdownLoop(_, _, _, _, _)
\* the list markdown_content gathered from entry i on
markdownLoop(fs, path, exclusions, ents, i) ==
  IF i > Len(ents) THEN <<>>
  ELSE LET item == ents[i]
           item_path == join(path, item)
           rest == markdownLoop(fs, path, exclusions, ents, i + 1)
       IN  IF should_exclude(item, exclusions) THEN rest
           ELSE IF isdir(fs, item_path)
                THEN <<directory_to_markdown(fs, item_path, exclusions)>> \o rest
                ELSE <<Section(item_path, read_ignore(open_r(fs, item_path).data))>> \o rest

directory_to_markdown(fs, path, exclusions) ==
  JoinLF(markdownLoop(fs, path, exclusions, listdir(fs, path).ents, 1))

(***************************************************************************)
(* update_files_from_json.  A walk state is [fs, events, writes, err]:      *)
(* events are the logging.info records, writes the canonical paths opened   *)
(* for writing, err the exception that ended the walk ("" while it runs).   *)
(***************************************************************************)
Event(kind, path, old, new) == [kind |-> kind, path |-> path, old |-> old, new |-> new]

\* lines 113-116: the parent directory is made when it does not exist; made
\* is what os.makedirs did
after_makedirs(st, dir_name, made) ==
  IF made.err # "" THEN [st EXCEPT !.fs = made.fs, !.err = made.err]
  ELSE [st EXCEPT !.fs = made.fs, !.events = Append(@, Event("mkdir", dir_name, 0, 0))]

ensure_dir(st, dir_name) ==
  IF exists(st.fs, dir_name) THEN st
  ELSE after_makedirs(st, dir_name, makedirs(st.fs, dir_name))

\* with open(file_path, 'w') as f: f.write(content), then the log record ev;
\* w is what open did.  Writing a content that is no str raises TypeError
\* after open has created or truncated the file.
write_content(st, content, w, ev) ==
  IF w.err # "" THEN [st EXCEPT !.err = w.err]
  ELSE IF content.t # "str"
       THEN [st EXCEPT !.fs = w.fs, !.writes = Append(@, w.path), !.err = "TypeError"]
       ELSE [st EXCEPT !.fs = write(w.fs, w.path, content.s),
                       !.writes = Append(@, w.path), !.events = Append(@, ev)]

\* with open(file_path, 'r', encoding='utf-8') as f: f.read(); r is what open did
read_file(r) ==
  IF r.err # "" THEN [err |-> r.err, text |-> <<>>] ELSE read_strict(r.data)

\* lines 119-126: the file exists; old is what reading it gave
update_existing(st, file_path, content, old) ==
  IF old.err # "" THEN [st EXCEPT !.err = old.err]
  ELSE IF content.t = "str" /\ old.text = content.s THEN st
  ELSE write_content(st, content, open_w(st.fs, file_path),
         Event("updated", file_path, Len(splitlines(old.text)), Len(splitlines(content.s))))

\* lines 118-130
update_or_create(st, file_path, content) ==
  IF st.err # "" THEN st
  ELSE IF exists(st.fs, file_path)
       THEN update_existing(st, file_path, content, read_file(open_r(st.fs, file_path)))
       ELSE write_content(st, content, open_w(st.fs, file_path),
              Event("created", file_path, 0, 0))

update_or_create_file(st, file_path, content) ==
  update_or_create(ensure_dir(st, dirname(file_path)), file_path, content)

RECURSIVE recurse_structure(_, _, _)
RECURSIVE recurseLoop(_, _, _, _)
\* recurse_structure descending with current_path in place of item_path
recurseLoop_flat(st, items, i, current_path) ==
  IF i > Len(items) \/ st.err # "" THEN st
  ELSE LET item_path == join(current_path, items[i].k)
           content == items[i].v
       IN  recurseLoop(IF content.t = "obj"
                       THEN recurse_structure(st, content, current_path)
                       ELSE update_or_create_file(st, item_path, content),
                       items, i + 1, current_path)

\* the for loop over structure.items(), from item i on
recurseLoop(st, items, i, current_path) ==
  IF i > Len(items) \/ st.err # "" THEN st
  ELSE LET item_path == join(current_path, items[i].k)
           content == items[i].v
       IN  recurseLoop(IF content.t = "obj"
                       THEN recurse_structure(st, content, item_path)
                       ELSE update_or_create_file(st, item_path, content),
                       items, i + 1, current_path)

\* structure.items() exists on a dict only
recurse_structure(st, structure, current_path) ==
  IF structure.t # "obj" THEN [st EXCEPT !.err = "AttributeError"]
  ELSE recurseLoop(st, structure.items, 1, current_path)

\* line 147 on the parsed document
walk_document(st, parsed, directory_path) ==
  IF ~parsed.ok THEN [st EXCEPT !.err = "JSONDecodeError"]
  ELSE recurse_structure(st, parsed.v, directory_path)

\* lines 102-103 and 147; text is what reading json_path gave
apply_document(f, directory_path, text) ==
  IF text.err # ""
  THEN [fs |-> f, events |-> <<>>, writes |-> <<>>, err |-> text.err, doc |-> <<>>]
  ELSE walk_document([fs |-> f, events |-> <<>>, writes |-> <<>>, err |-> "", doc |-> text.text],
                     json_load(text.text), directory_path)

\* [fs, events, writes, err, doc]: doc is the text read from json_path
update_files_from_json(f, directory_path, json_path) ==
  apply_document(f, directory_path, read_file(open_r(f, json_path)))

(***************************************************************************)
(* main: one run of the script is one action.  The state is the filesystem; *)
(* last and prev record the two most recent runs (what they were given,     *)
(* what they logged, wrote and raised), runs counts them.                   *)
(***************************************************************************)
VARIABLES fs, last, prev, runs

vars == <<fs, last, prev, runs>>

\* the number of runs of the script in one behaviour
MaxRuns == 2

JSON_NAME == <<"d", "i", "r", "e", "c", "t", "o", "r", "y", "_", "s", "t", "r", "u", "c",
               "t", "u", "r", "e", ".", "j", "s", "o", "n">>

MD_NAME == <<"d", "i", "r", "e", "c", "t", "o", "r", "y", "_", "s", "t", "r", "u", "c",
             "t", "u", "r", "e", ".", "m", "d">>

\* the directory_path arguments of the runs, the --exclude argument and the
\* --update arguments
S == <<"/", "s">>
T == <<"/", "t">>
EXCLUDE == <<"/", "e">>
J == <<"/", "j">>

Roots == {S, T}

\* the --update arguments: the document /j, or the capture of /s
JsonPaths == {J, join(S, JSON_NAME)}

Run(op, root, pre, res) ==
  [op |-> op, root |-> root, pre |-> pre, err |-> res.err, events |-> res.events,
   writes |-> res.writes, doc |-> res.doc, json_path |-> res.json_path,
   struct |-> res.struct, out |-> res.out]

NoResult ==
  [err |-> "", events |-> <<>>, writes |-> <<>>, doc |-> <<>>, json_path |-> <<>>,
   struct |-> Null, out |-> <<>>]

NoRun == Run("none", <<>>, <<>>, NoResult)

\* open(output_path, 'w') and f.write(text); w is what open did
written(f, w, text) ==
  IF w.err # "" THEN [fs |-> f, err |-> w.err, writes |-> <<>>]
  ELSE [fs |-> write(w.fs, w.path, text), err |-> "", writes |-> <<w.path>>]

write_file(f, output_path, text) == written(f, open_w(f, output_path), text)

Crash(f, err) == [fs |-> f, res |-> [NoResult EXCEPT !.err = err]]

\* main with --update json_path (lines 169-172); ex is what load_exclusions gave
UpdateRun(ex, u, json_path) ==
  IF ex.err # "" THEN Crash(fs, ex.err)
  ELSE [fs |-> u.fs,
        res |-> [NoResult EXCEPT !.err = u.err, !.events = u.events, !.writes = u.writes,
                                 !.doc = u.doc, !.json_path = json_path]]

MainUpdate(directory_path, json_path) ==
  UpdateRun(load_exclusions(fs, EXCLUDE),
            update_files_from_json(fs, directory_path, json_path), json_path)

\* main with --markdown (lines 173-178)
MarkdownWritten(w, markdown_content) ==
  [fs |-> w.fs,
   res |-> [NoResult EXCEPT !.err = w.err, !.writes = w.writes, !.out = markdown_content]]

MarkdownOut(directory_path, markdown_content) ==
  MarkdownWritten(write_file(fs, join(directory_path, MD_NAME), markdown_content),
                  markdown_content)

MarkdownRun(ex, ls, directory_path) ==
  IF ex.err # "" THEN Crash(fs, ex.err)
  ELSE IF ls.err # "" THEN Crash(fs, ls.err)
  ELSE MarkdownOut(directory_path, directory_to_markdown(fs, directory_path, ex.list))

MainMarkdown(directory_path) ==
  MarkdownRun(load_exclusions(fs, EXCLUDE), listdir(fs, directory_path), directory_path)

\* main with neither flag (lines 179-183)
DefaultWritten(w, structure, text) ==
  [fs |-> w.fs,
   res |-> [NoResult EXCEPT !.err = w.err, !.writes = w.writes,
                            !.struct = structure, !.out = text]]

\* save_structure_to_json(structure, output_path)
save_structure_to_json(structure, output_path, text) ==
  DefaultWritten(write_file(fs, output_path, text), structure, text)

DefaultOut(directory_path, structure) ==
  save_structure_to_json(structure, join(directory_path, JSON_NAME), json_dump(structure))

\* the default branch leaving its own output file out of the capture
DefaultRun_skip_output(ex, ls, directory_path) ==
  IF ex.err # "" THEN Crash(fs, ex.err)
  ELSE IF ls.err # "" THEN Crash(fs, ls.err)
  ELSE DefaultOut(directory_path,
                  directory_to_dict(fs, directory_path, ex.list \o <<JSON_NAME>>))

\* lines 180-182; ex is what load_exclusions gave, ls the listing of the root
DefaultRun(ex, ls, directory_path) ==
  IF ex.err # "" THEN Crash(fs, ex.err)
  ELSE IF ls.err # "" THEN Crash(fs, ls.err)
  ELSE DefaultOut(directory_path, directory_to_dict(fs, directory_path, ex.list))

MainDefault(directory_path) ==
  DefaultRun(load_exclusions(fs, EXCLUDE), listdir(fs, directory_path), directory_path)

Finish(op, root, m) ==
  /\ fs' = m.fs
  /\ last' = Run(op, root, fs, m.res)
  /\ prev' = [last EXCEPT !.pre = <<>>]
  /\ runs' = runs + 1

Update(directory_path, json_path) ==
  /\ runs < MaxRuns
  /\ Finish("update", directory_path, MainUpdate(directory_path, json_path))

Markdown(directory_path) ==
  /\ runs < MaxRuns
  /\ Finish("markdown", directory_path, MainMarkdown(directory_path))

Default(directory_path) ==
  /\ runs < MaxRuns
  /\ Finish("default", directory_path, MainDefault(directory_path))

Next ==
  \/ \E r \in Roots, j \in JsonPaths : Update(r, j)
  \/ \E r \in Roots : Markdown(r)
  \/ \E r \in Roots : Default(r)

(***************************************************************************)
(* Initial filesystems.  A tree is given as the entries to add, parents     *)
(* first, each with its canonical path.                                     *)
(***************************************************************************)
Add(cp, node) == [p |-> cp, n |-> node]

RECURSIVE Build(_, _)
Build(f, adds) ==
  IF adds = <<>> THEN f ELSE Build(AddEntry(f, adds[1].p, adds[1].n), Tail(adds))

RootOnly == (<<>> :> DirNode(<<>>))

nf == <<"f">>
nd == <<"d">>
ng == <<"g">>
nh == <<"h">>
nx == <<"x">>
ns == <<"s">>
nt == <<"t">>

TextA == <<"a">>
TextLines == <<"a", LF, "b">>
TextCRLF == <<"a", CR, LF, "b">>
BytesBad == <<"a", BAD>>

\* the bytes a file of the initial tree may hold
Data == {TextA, TextCRLF, BytesBad}

\* /s: a file f or none, then a directory d (empty, or holding a file) or none
SrcTrees ==
  {fa \o da :
     fa \in {<<>>} \cup {<<Add(<<ns, nf>>, FileNode(b))>> : b \in Data},
     da \in {<<>>, <<Add(<<ns, nd>>, DirNode(<<>>))>>,
             <<Add(<<ns, nd>>, DirNode(<<>>)), Add(<<ns, nd, nf>>, FileNode(TextA))>>}}

\* the leaves a document may hold: three texts, and values that are no text
Leaves == {Str(TextA), Str(TextLines), Str(TextCRLF), Num("1"), EmptyList}

\* the documents given with --update
Documents ==
  {Obj(<<>>), Str(TextA), EmptyList}
  \cup {Obj(<<Item(nf, v)>>) : v \in Leaves}
  \cup {Obj(<<Item(nd, v)>>) :
          v \in {Obj(<<>>), Obj(<<Item(nf, Str(TextLines))>>), Obj(<<Item(nd, Obj(<<>>))>>),
                 Str(TextA)}}
  \cup {Obj(<<Item(nf, Obj(<<Item(nf, Str(TextA))>>))>>),
        Obj(<<Item(ng, Obj(<<Item(nh, Obj(<<Item(nf, Str(TextA))>>))>>))>>),
        Obj(<<Item(<<".", ".">>, Obj(<<Item(nx, Str(TextA))>>))>>),
        Obj(<<Item(<<".", ".", "/", "x">>, Str(TextA))>>),
        Obj(<<Item(<<"/", "x">>, Str(TextA))>>),
        Obj(<<Item(<<"d", "/", "f">>, Str(TextA)), Item(nd, Obj(<<Item(nf, Str(TextLines))>>))>>),
        Obj(<<Item(nf, Str(TextLines)), Item(ng, Num("1"))>>),
        Obj(<<Item(ng, Str(TextA)), Item(nf, Null)>>),
        Obj(<<Item(nf, Num("1")), Item(ng, Str(TextA))>>),
        Obj(<<Item(nf, Str(TextA)), Item(nd, Obj(<<Item(nf, Str(TextCRLF))>>))>>)}

\* the bytes of the file given with --update: a document as json.dump
\* writes it, or a text that is no JSON
DocumentFiles == {json_dump(v) : v \in Documents} \cup {<<"{", QUOTE, "f", QUOTE>>}

\* /t: missing, or an empty directory
TargetTrees == {<<>>, <<Add(<<nt>>, DirNode(<<>>))>>}

\* the filesystems a run of --update starts from: /s, /t and the document /j
UpdateLayouts ==
  {<<Add(<<ns>>, DirNode(<<>>))>> \o tree \o target \o <<Add(<<<<"j">>>>, FileNode(doc))>> :
     tree \in SrcTrees, target \in TargetTrees, doc \in DocumentFiles}

AT == <<"a", ".", "t">>
MPY == <<"m", ".", "p", "y">>

\* the entries of /s in a capture: a file a.t, a file m.py, and a directory d
\* that is empty, holds a file, or holds an empty directory
CaptureParts ==
  {<<Add(<<ns, AT>>, FileNode(TextA))>>,
   <<Add(<<ns, MPY>>, FileNode(<<"x", LF>>))>>,
   <<Add(<<ns, nd>>, DirNode(<<>>))>>,
   <<Add(<<ns, nd>>, DirNode(<<>>)), Add(<<ns, nd, AT>>, FileNode(TextCRLF))>>,
   <<Add(<<ns, nd>>, DirNode(<<>>)), Add(<<ns, nd, ng>>, DirNode(<<>>))>>}

\* /s listed in every order of every choice of these entries
CaptureTrees ==
  {<<>>} \cup CaptureParts
  \cup {w[1] \o w[2] :
          w \in {v \in CaptureParts \X CaptureParts : v[1][1].p # v[2][1].p}}
  \cup {w[1] \o w[2] \o w[3] :
          w \in {v \in CaptureParts \X CaptureParts \X CaptureParts :
                   v[1][1].p # v[2][1].p /\ v[1][1].p # v[3][1].p /\ v[2][1].p # v[3][1].p}}

\* the exclusion file /e: missing (<<>> here), or its bytes
ExclusionFiles ==
  {<<>>,
   <<Add(<<<<"e">>>>, FileNode(<<>>))>>,
   <<Add(<<<<"e">>>>, FileNode(<<"*", ".", "t">>))>>,
   <<Add(<<<<"e">>>>, FileNode(<<"d">>))>>,
   <<Add(<<<<"e">>>>, FileNode(<<"*", ".", "t", LF, "d", "*", LF>>))>>,
   <<Add(<<<<"e">>>>, FileNode(<<"?">>))>>,
   <<Add(<<<<"e">>>>, FileNode(<<"d", "/", "a", ".", "t">>))>>,
   <<Add(<<<<"e">>>>, FileNode(<<LF, "*", ".", "p", "y">>))>>,
   <<Add(<<<<"e">>>>, FileNode(<<"a", ".", "t", CR, LF, "g">>))>>}

\* the filesystems a capture starts from: /s and the exclusion file /e
CaptureLayouts ==
  {<<Add(<<ns>>, DirNode(<<>>))>> \o tree \o ex : tree \in CaptureTrees, ex \in ExclusionFiles}

Init ==
  /\ \E layout \in UpdateLayouts \cup CaptureLayouts : fs = Build(RootOnly, layout)
  /\ last = NoRun
  /\ prev = NoRun
  /\ runs = 0

Spec == Init /\ [][Next]_vars

(***************************************************************************)
(* What the claims speak of.                                                *)
(***************************************************************************)
\* the canonical path a path string names, read lexically: "" and "." are
\* dropped and ".." steps back to the parent
RECURSIVE Fold(_, _, _)
Fold(comps, i, cur) ==
  IF i > Len(comps) THEN cur
  ELSE IF comps[i] = <<>> \/ comps[i] = <<".">> THEN Fold(comps, i + 1, cur)
  ELSE IF comps[i] = <<".", ".">>
       THEN Fold(comps, i + 1, IF cur = <<>> THEN cur ELSE Front(cur))
       ELSE Fold(comps, i + 1, Append(cur, comps[i]))

Canon(p) == Fold(Components(p), 1, <<>>)

IsPrefix(a, b) == Len(a) <= Len(b) /\ SubSeq(b, 1, Len(a)) = a

\* the leaves of a document (every value that is no mapping) in the order of
\* the walk, each with the path string it is given under the root
RECURSIVE LeavesOf(_, _)
RECURSIVE LeavesFrom(_, _, _)
LeavesFrom(items, i, path) ==
  IF i > Len(items) THEN <<>>
  ELSE LeavesOf(items[i].v, join(path, items[i].k)) \o LeavesFrom(items, i + 1, path)

LeavesOf(v, path) ==
  IF v.t = "obj" THEN LeavesFrom(v.items, 1, path) ELSE <<[path |-> path, v |-> v]>>

\* the path strings of the nested mappings of a document, the root left out
RECURSIVE DirsOf(_, _)
DirsOf(v, path) ==
  IF v.t # "obj" THEN {}
  ELSE UNION {{join(path, v.items[i].k)} \cup DirsOf(v.items[i].v, join(path, v.items[i].k)) :
                i \in {k \in 1..Len(v.items) : v.items[k].v.t = "obj"}}

\* the document a run of --update read, parsed
DocOf(r) == json_load(r.doc)

\* a document of the expected shape: a nested mapping whose leaves are all strings
WellFormed(r) ==
  LET doc == DocOf(r)
      leaves == LeavesOf(doc.v, r.root)
  IN  doc.ok /\ doc.v.t = "obj" /\ \A i \in 1..Len(leaves) : leaves[i].v.t = "str"

Updated == last.op = "update" /\ last.doc # <<>>

\* the log records of file creations and updates
FileEvents(r) == SelectSeq(r.events, LAMBDA e : e.kind \in {"created", "updated"})

\* C7: after update_files_from_json completes, every nested mapping of the
\* document is a directory on disk (also one with no file below it).
C7_DirectoriesMaterialised ==
  (Updated /\ last.err = "" /\ DocOf(last).ok)
    => \A p \in DirsOf(DocOf(last).v, last.root) : isdir(fs, p)

\* C8: a document that is no nested mapping with string leaves makes the run
\* fail, and nothing on disk has changed when it fails.
C8_MalformedRejectedBeforeMutation ==
  (Updated /\ ~WellFormed(last)) => (last.err # "" /\ fs = last.pre)

\* C9: whatever the keys of the document, every file or directory the run
\* creates or changes lies inside directory_path.
C9_PathConfinement ==
  Updated =>
    \A cp \in DOMAIN fs :
      (cp \notin DOMAIN last.pre \/ fs[cp].data # last.pre[cp].data)
        => IsPrefix(Canon(last.root), cp)

\* C2: a second run with the same document and target, after a first that
\* completed without error, writes no file, logs no creation or update and
\* leaves the disk as the first run left it.
C2_Idempotence ==
  (/\ prev.op = "update" /\ prev.err = "" /\ prev.doc # <<>>
   /\ last.op = "update" /\ last.root = prev.root /\ last.json_path = prev.json_path
   /\ last.doc = prev.doc)
    => (last.writes = <<>> /\ FileEvents(last) = <<>> /\ fs = last.pre)

\* the leaves of the document of run r in the order of the walk (none when
\* the document could not be parsed)
LeavesOfRun(r) == LET doc == DocOf(r) IN IF doc.ok THEN LeavesOf(doc.v, r.root) ELSE <<>>

\* the canonical paths the leaves of the document of run r name
NamedByLeaf(r) ==
  LET leaves == LeavesOfRun(r) IN {Canon(leaves[i].path) : i \in 1..Len(leaves)}

\* C3: update_files_from_json removes nothing: whatever existed before the
\* run still exists as what it was, a directory still lists what it listed,
\* and a file no leaf of the document names holds the bytes it held (also
\* when the run ends in an error).
C3_NonDestructive ==
  last.op = "update" =>
    LET named == NamedByLeaf(last)
    IN  \A cp \in DOMAIN last.pre :
          /\ cp \in DOMAIN fs
          /\ fs[cp].kind = last.pre[cp].kind
          /\ IsPrefix(last.pre[cp].ents, fs[cp].ents)
          /\ cp \notin named => fs[cp].data = last.pre[cp].data

\* a run that wrote a file beside a file its document does not name
C3_Witness ==
  /\ last.op = "update" /\ last.err = "" /\ last.writes # <<>>
  /\ \E cp \in DOMAIN last.pre :
       /\ IsPrefix(Canon(last.root), cp)
       /\ last.pre[cp].kind = "file"
       /\ cp \notin NamedByLeaf(last)
       /\ fs[cp] = last.pre[cp]

AllDecodable(f, root) ==
  \A cp \in DOMAIN f : IsPrefix(Canon(root), cp) => BAD \notin Range(f[cp].data)

EmptyDir(f, root) ==
  Canon(root) \in DOMAIN f /\ f[Canon(root)] = DirNode(<<>>)

\* a capture of a source tree with no exclusion, then the document it wrote
\* applied to another root that was an empty directory
RoundTripped ==
  /\ prev.op = "default" /\ prev.err = ""
  /\ last.op = "update" /\ last.root # prev.root
  /\ last.json_path = join(prev.root, JSON_NAME)
  /\ ~exists(last.pre, EXCLUDE)
  /\ AllDecodable(last.pre, prev.root)
  /\ EmptyDir(last.pre, last.root)

\* C1: after the round trip the structure captured from the target equals
\* the structure captured from the source.
C1_RoundTrip ==
  RoundTripped =>
    /\ last.err = ""
    /\ DeepEqual(directory_to_dict(fs, last.root, <<>>), prev.struct)

\* whether the default run r excluded its own output name
ExcludesOutput(r) == should_exclude(JSON_NAME, load_exclusions(r.pre, EXCLUDE).list)

\* C10: the first default run on a tree records no entry for
\* directory_structure.json; the next default run on the same root records
\* it as a top-level leaf holding the whole document of the run before, so
\* the two documents differ.
C10_CaptureFeedsBack ==
  /\ (last.op = "default" /\ last.err = "" /\ ~exists(last.pre, join(last.root, JSON_NAME)))
       => JSON_NAME \notin Keys(last.struct.items)
  /\ (/\ prev.op = "default" /\ prev.err = ""
      /\ last.op = "default" /\ last.err = "" /\ last.root = prev.root
      /\ ~ExcludesOutput(last))
       => /\ JSON_NAME \in Keys(last.struct.items)
          /\ Get(last.struct.items, JSON_NAME) = Str(prev.out)
          /\ last.out # prev.out

\* two default runs in a row on a tree that holds a file
C10_Witness ==
  /\ prev.op = "default" /\ prev.err = "" /\ prev.struct.items # <<>>
  /\ JSON_NAME \notin Keys(prev.struct.items)
  /\ last.op = "default" /\ last.err = "" /\ last.root = prev.root
  /\ ~ExcludesOutput(last)
  /\ Len(last.out) > Len(prev.out)

\* the patterns a run started from filesystem f is given: none when the
\* exclusion file is missing, else its lines
PatternsOf(f) ==
  IF Canon(EXCLUDE) \in DOMAIN f THEN splitlines(Universal(f[Canon(EXCLUDE)].data)) ELSE <<>>

Matches(name, pats) == \E i \in 1..Len(pats) : fnmatch(name, pats[i])

\* the entries below root whose own name and whose ancestors' names below
\* root match no pattern
Kept(f, root, pats) ==
  {cp \in DOMAIN f :
     /\ IsPrefix(root, cp) /\ cp # root
     /\ \A i \in (Len(root) + 1)..Len(cp) : ~Matches(cp[i], pats)}

\* the canonical paths of the entries of a captured structure
RECURSIVE StructPaths(_, _)
StructPaths(v, cp) ==
  UNION {{Append(cp, v.items[i].k)} \cup StructPaths(v.items[i].v, Append(cp, v.items[i].k)) :
           i \in 1..Len(v.items)}

\* the value a captured structure holds at the canonical path cp below root
RECURSIVE ValueAt(_, _, _)
ValueAt(v, cp, i) == IF i > Len(cp) THEN v ELSE ValueAt(Get(v.items, cp[i]), cp, i + 1)

Captured == last.op = "default" /\ last.err = ""

\* C5: the captured structure holds exactly the entries whose name matches
\* no pattern and that lie below no directory whose name matches one (the
\* match is on the bare name); a directory is a mapping, a file its decoded
\* text; with no exclusion file nothing is left out.
C5_ExclusionCorrectness ==
  Captured =>
    /\ StructPaths(last.struct, Canon(last.root))
         = Kept(last.pre, Canon(last.root), PatternsOf(last.pre))
    /\ \A cp \in StructPaths(last.struct, Canon(last.root)) :
         LET v == ValueAt(last.struct, cp, Len(Canon(last.root)) + 1)
         IN  IF last.pre[cp].kind = "dir" THEN v.t = "obj"
             ELSE v = Str(read_ignore(last.pre[cp].data))
    /\ ~exists(last.pre, EXCLUDE)
         => StructPaths(last.struct, Canon(last.root))
              = {cp \in DOMAIN last.pre : IsPrefix(Canon(last.root), cp) /\ cp # Canon(last.root)}

\* a capture that left out a directory by its name, with a file in it whose
\* own name matches no pattern, and kept another entry
C5_Witness ==
  /\ Captured
  /\ last.struct.items # <<>>
  /\ \E cp \in DOMAIN last.pre :
       /\ IsPrefix(Canon(last.root), cp) /\ Len(cp) = Len(Canon(last.root)) + 2
       /\ Matches(cp[Len(cp) - 1], PatternsOf(last.pre))
       /\ ~Matches(cp[Len(cp)], PatternsOf(last.pre))
       /\ cp \notin StructPaths(last.struct, Canon(last.root))

\* the sections of the files below path that no pattern leaves out, depth
\* first in listing order
RECURSIVE SectionsOf(_, _, _)
RECURSIVE SectionsFrom(_, _, _, _, _)
SectionsFrom(f, path, pats, ents, i) ==
  IF i > Len(ents) THEN <<>>
  ELSE (IF Matches(ents[i], pats) THEN <<>>
        ELSE IF isdir(f, join(path, ents[i])) THEN SectionsOf(f, join(path, ents[i]), pats)
        ELSE <<Section(join(path, ents[i]), read_ignore(open_r(f, join(path, ents[i])).data))>>)
       \o SectionsFrom(f, path, pats, ents, i + 1)

SectionsOf(f, path, pats) == SectionsFrom(f, path, pats, listdir(f, path).ents, 1)

\* C6: the markdown output is the sections of the files that are not left
\* out, in depth-first listing order, with exactly one empty line between
\* two sections and nothing for a directory itself.
C6_FlatDocumentLayout ==
  (last.op = "markdown" /\ last.err = "")
    => last.out = JoinLF(SectionsOf(last.pre, last.root, PatternsOf(last.pre)))

\* no two leaves name the same path, and none names a path below another's
Unrelated(leaves) ==
  \A i, j \in 1..Len(leaves) :
    i # j => ~IsPrefix(Canon(leaves[i].path), Canon(leaves[j].path))

PlainPath(p) == \A i \in 1..Len(Components(p)) : Components(p)[i] \notin {<<".">>, <<".", ".">>}

\* how many log records of this kind the last run made for the path string p
EventCount(kind, p) ==
  Cardinality({i \in 1..Len(last.events) : last.events[i].kind = kind /\ last.events[i].path = p})

\* how many times the last run opened the canonical path cp for writing
WriteCount(cp) == Cardinality({i \in 1..Len(last.writes) : last.writes[i] = cp})

\* the claimed outcome of the leaf (p, c)
ClaimedOutcome(p, c, cp) ==
  /\ cp \in DOMAIN fs /\ fs[cp] = FileNode(c)
  /\ IF ~IsFileAt(last.pre, cp)
     THEN EventCount("created", p) = 1 /\ EventCount("updated", p) = 0
     ELSE IF last.pre[cp].data # c
          THEN /\ EventCount("created", p) = 0
               /\ SelectSeq(last.events, LAMBDA e : e.path = p)
                    = <<Event("updated", p, Len(splitlines(last.pre[cp].data)),
                              Len(splitlines(c)))>>
          ELSE EventCount("created", p) + EventCount("updated", p) = 0
               /\ WriteCount(cp) = 0

AllClaimed(leaves) ==
  (Unrelated(leaves) /\ \A i \in 1..Len(leaves) : PlainPath(leaves[i].path))
    => \A i \in 1..Len(leaves) :
         ClaimedOutcome(leaves[i].path, leaves[i].v.s, Canon(leaves[i].path))

\* C4 as claimed (here for documents whose keys hold no "." or ".."
\* segment): whatever P/N was before the run, a leaf (P/N, C) ends as a
\* file with content C: created with one "created" record when P/N was no
\* file, overwritten with one "updated" record carrying the line counts when
\* it was a file with another content, left alone with no record when it
\* was a file with content C.
C4_PerLeafOutcome ==
  (Updated /\ WellFormed(last)) => AllClaimed(LeavesOfRun(last))

====
